---- MODULE Spec2Model ----
(***************************************************************************)
(* A model of src/jarvis_bot.py: the JarvisBot router (handle_message and  *)
(* the command handlers), the AI response orchestrator (get_ai_response),  *)
(* the function dispatcher (execute_function), the time parser             *)
(* (parse_time_string), the reminder callback (send_reminder) and the      *)
(* tables they write.  Handlers run one at a time, except in               *)
(* SpecConcurrent, where runs of handle_message overlap at their awaits.   *)
(*                                                                         *)
(* Text is modelled as a sequence of symbols.  A symbol is one character,  *)
(* or one opaque token standing for a fixed literal of the source (a       *)
(* Persian reply template, a user message).  The operations the source     *)
(* applies to the model's output (startswith, replace, strip, split,       *)
(* json.loads, int) are computed on the characters.                        *)
(***************************************************************************)
EXTENDS Integers, Sequences, FiniteSets, TLC

(***************************************************************************)
(* Bounds of the model.                                                    *)
(***************************************************************************)
MaxLog == 4          \* AI exchanges logged in the orchestrator specification
MaxParseLog == 2     \* AI exchanges logged in the directive-parsing specification
MaxRouterLog == 1    \* AI exchanges logged in the router specifications
MaxTasks == 3        \* tasks ever inserted
MaxMinutes == 1      \* the clock runs to minute MaxMinutes of a day
MaxDays == 1         \* the clock runs to day MaxDays
MaxOffline == 11     \* messages queued while offline
MaxNotes == 1        \* notes ever inserted
MaxReminders == 2    \* reminders ever inserted
MaxConcurrentLog == 4 \* exchanges logged, and tasks added, by overlapping runs
MaxInFlight == 2     \* runs of handle_message suspended at the same time
MaxFnTasks == 2      \* tasks inserted in the specification of all functions
MaxFnReminders == 1  \* reminders inserted in the specification of all functions

(***************************************************************************)
(* Configuration (lines 43-61).                                            *)
(***************************************************************************)
OWNER_ID == "owner"
Stranger == "stranger"
Users == {OWNER_ID, Stranger}

PLACEHOLDER_KEY == "YOUR_OPENROUTER_API_KEY"
KeyAbsent == "None"
KeyReal == "sk-or-key"
ApiKeys == {KeyAbsent, PLACEHOLDER_KEY, KeyReal}

DEFAULT_MODEL == "openai/gpt-3.5-turbo"
OtherModels == {"openai/gpt-4-turbo"}

\* The clock counts minutes (timedelta(minutes=1) is one tick).
MINUTES_PER_HOUR == 60
MINUTES_PER_DAY == 1440

NUM_TIPS == 8
NUM_QUOTES == 5

(***************************************************************************)
(* Python string operations on sequences of characters.                    *)
(***************************************************************************)
Whitespace == {" ", "\n", "\t"}
Digits == <<"0", "1", "2", "3", "4", "5", "6", "7", "8", "9">>

\* str.startswith
StartsWith(s, p) == Len(s) >= Len(p) /\ SubSeq(s, 1, Len(p)) = p

\* the least index j >= i at which p occurs in s; 0 when there is none
RECURSIVE FindFrom(_, _, _)
FindFrom(s, p, i) ==
    IF i + Len(p) - 1 > Len(s) THEN 0
    ELSE IF SubSeq(s, i, i + Len(p) - 1) = p THEN i
    ELSE FindFrom(s, p, i + 1)

\* str.replace(old, new): every non-overlapping occurrence, leftmost first
RECURSIVE Replace(_, _, _)
Replace(s, old, new) ==
    LET j == FindFrom(s, old, 1) IN
    IF j = 0 THEN s
    ELSE SubSeq(s, 1, j - 1) \o new
         \o Replace(SubSeq(s, j + Len(old), Len(s)), old, new)

RECURSIVE LStrip(_)
LStrip(s) ==
    IF s # <<>> /\ Head(s) \in Whitespace THEN LStrip(Tail(s)) ELSE s

RECURSIVE RStrip(_)
RStrip(s) ==
    IF s # <<>> /\ s[Len(s)] \in Whitespace
    THEN RStrip(SubSeq(s, 1, Len(s) - 1)) ELSE s

\* str.strip()
Strip(s) == RStrip(LStrip(s))

\* str.split(sep): cut at every occurrence of sep
RECURSIVE Split(_, _)
Split(s, sep) ==
    LET j == FindFrom(s, sep, 1) IN
    IF j = 0 THEN <<s>>
    ELSE <<SubSeq(s, 1, j - 1)>> \o Split(SubSeq(s, j + Len(sep), Len(s)), sep)

DigitValue(c) == (CHOOSE d \in 1..10 : Digits[d] = c) - 1
IsDigit(c) == \E d \in 1..10 : Digits[d] = c

RECURSIVE DigitsValue(_)
DigitsValue(s) ==
    IF s = <<>> THEN 0
    ELSE 10 * DigitsValue(SubSeq(s, 1, Len(s) - 1)) + DigitValue(s[Len(s)])

\* int(s) for a str: surrounding whitespace dropped, then decimal digits;
\* ok = FALSE stands for the ValueError
ParseInt(s) ==
    LET t == Strip(s) IN
    IF t # <<>> /\ \A i \in 1..Len(t) : IsDigit(t[i])
    THEN [ok |-> TRUE, value |-> DigitsValue(t)]
    ELSE [ok |-> FALSE, value |-> 0]

\* str(n) for n >= 0
RECURSIVE ToStr(_)
ToStr(n) ==
    IF n < 10 THEN <<Digits[n + 1]>>
    ELSE ToStr(n \div 10) \o <<Digits[(n % 10) + 1]>>

(***************************************************************************)
(* json.loads, for the documents the model's inputs contain: an object     *)
(* whose keys and values are strings without escapes, with optional        *)
(* whitespace between the tokens.  ok = FALSE stands for JSONDecodeError.  *)
(* The value is a mapping from key to value; a repeated key keeps the last.*)
(***************************************************************************)
Quote == "\""
JsonFail == [ok |-> FALSE, value |-> <<>>, next |-> 0]

RECURSIVE SkipWs(_, _)
SkipWs(s, i) ==
    IF i <= Len(s) /\ s[i] \in Whitespace THEN SkipWs(s, i + 1) ELSE i

\* a string literal starting at s[i]
JsonString(s, i) ==
    IF i > Len(s) \/ s[i] # Quote THEN JsonFail
    ELSE LET j == FindFrom(s, <<Quote>>, i + 1) IN
         IF j = 0 THEN JsonFail
         ELSE [ok |-> TRUE, value |-> SubSeq(s, i + 1, j - 1), next |-> j + 1]

\* the members of an object from s[i] on, added to the mapping acc
RECURSIVE JsonMembers(_, _, _)
JsonMembers(s, i, acc) ==
    LET k == JsonString(s, SkipWs(s, i)) IN
    IF ~k.ok THEN JsonFail
    ELSE LET c == SkipWs(s, k.next) IN
         IF c > Len(s) \/ s[c] # ":" THEN JsonFail
         ELSE LET v == JsonString(s, SkipWs(s, c + 1)) IN
              IF ~v.ok THEN JsonFail
              ELSE LET e == SkipWs(s, v.next)
                       m == [x \in (DOMAIN acc) \cup {k.value} |->
                                IF x = k.value THEN v.value ELSE acc[x]]
                   IN IF e > Len(s) THEN JsonFail
                      ELSE IF s[e] = "}" THEN [ok |-> TRUE, value |-> m, next |-> e + 1]
                      ELSE IF s[e] = "," THEN JsonMembers(s, e + 1, m)
                      ELSE JsonFail

EmptyDict == [x \in {} |-> <<>>]

JsonLoads(s) ==
    LET i == SkipWs(s, 1) IN
    IF i > Len(s) \/ s[i] # "{" THEN JsonFail
    ELSE LET j == SkipWs(s, i + 1)
             r == IF j <= Len(s) /\ s[j] = "}"
                  THEN [ok |-> TRUE, value |-> EmptyDict, next |-> j + 1]
                  ELSE JsonMembers(s, i + 1, EmptyDict)
         IN IF r.ok /\ SkipWs(s, r.next) > Len(s) THEN r ELSE JsonFail

\* dict.get(key, default)
DictGet(d, key, default) == IF key \in DOMAIN d THEN d[key] ELSE default

(***************************************************************************)
(* Literals of the source.                                                 *)
(***************************************************************************)
EXECUTE_MARKER == <<"E","X","E","C","U","T","E","_","F","U","N","C","T","I","O","N",":">>
SEPARATOR == <<" ", "|", " ">>
FnAddTask == <<"a","d","d","_","t","a","s","k">>
FnListTasks == <<"l","i","s","t","_","t","a","s","k","s">>
FnCompleteTask == <<"c","o","m","p","l","e","t","e","_","t","a","s","k">>
FnAddNote == <<"a","d","d","_","n","o","t","e">>
FnListNotes == <<"l","i","s","t","_","n","o","t","e","s">>
FnSetReminder == <<"s","e","t","_","r","e","m","i","n","d","e","r">>
FnGetTip == <<"g","e","t","_","t","i","p">>
FnGetQuote == <<"g","e","t","_","q","u","o","t","e">>
FnGetSummary == <<"g","e","t","_","s","u","m","m","a","r","y">>
KeyDescription == <<"d","e","s","c","r","i","p","t","i","o","n">>
KeyTaskNumber == <<"t","a","s","k","_","n","u","m","b","e","r">>
KeyContent == <<"c","o","n","t","e","n","t">>
KeyTime == <<"t","i","m","e">>

(***************************************************************************)
(* Fixed reply texts of the source, one token each, and the formatted      *)
(* replies: a template token followed by the characters formatted in.      *)
(***************************************************************************)
MsgNeedDescription == <<"[need_task_description]">>                 \* line 161
MsgTaskAdded(d) == <<"[task_added]">> \o d                         \* line 168
MsgNoTasks == <<"[no_tasks]">>                                     \* line 178
MsgWhichTask == <<"[which_task]">>                                 \* line 189
MsgNotNumber == <<"[task_number_must_be_number]">>                 \* line 194
MsgInvalidNumber == <<"[invalid_task_number]">>                    \* line 203
MsgTaskCompleted(d) == <<"[task_completed]">> \o d                 \* line 209
MsgNeedContent == <<"[need_note_content]">>                        \* line 214
MsgNoteSaved(c) == <<"[note_saved]">> \o c                         \* line 221
MsgNoNotes == <<"[no_notes]">>                                     \* line 231
MsgTasksHeader == <<"[tasks_header]">>                             \* line 180
MsgNotesHeader == <<"[notes_header]">>                             \* line 233
MsgNeedReminder == <<"[need_time_and_description]">>               \* line 244
MsgBadTime == <<"[error]", "[time_format_30m_2h_1d]">>             \* lines 249, 508
MsgReminderSet(d, t) == <<"[reminder_set]">> \o d \o <<"[at]">> \o t \* line 268
MsgTip(i) == <<"[tip]">> \o i                                      \* lines 271-281
MsgQuote(i) == <<"[quote]">> \o i                                  \* lines 284-291
MsgSummary(day, a, b, c, d) ==                                     \* lines 312-319
    <<"[summary]">> \o day \o <<"[completed]">> \o a \o <<"[pending]">> \o b
    \o <<"[notes_today]">> \o c \o <<"[ai_today]">> \o d
MsgUnknown(f) == <<"[unknown_function]">> \o f                     \* line 322
MsgFunctionError == <<"[function_error]">>                         \* line 326
MsgReminder(d) == <<"[reminder]">> \o d                            \* line 530
MsgAiOff == <<"[ai_off_set_api_key]">>                             \* line 331
MsgDirectiveError == <<"[directive_error]">>                       \* line 451
MsgStatusError(code) == <<"[ai_status_error]">> \o code            \* line 470
MsgTimeout == <<"[ai_timeout]">>                                   \* line 473
MsgAiError == <<"[ai_connection_error]">>                          \* line 476
MsgCleared == <<"[memory_cleared]">>                               \* line 751
MsgOfflineOn(m) == <<"[offline_mode_on]">> \o m                    \* line 761
MsgOnlineAgain == <<"[back_online]">>                              \* line 787
MsgAiDisabledHint == <<"[ai_disabled_use_commands]">>              \* line 816
MsgDecline == <<"[owner_only]">>                                   \* line 818
MsgAiStatus(on, m) == <<"[ai_status]", on, m>>                     \* line 706
MsgModels(m) == <<"[current_model]", m>>                           \* lines 732-738
MsgStart(on) == <<"[welcome]", on>>                                \* lines 607-631
MsgHelp(on, m) == <<"[help]", on, m>>                              \* lines 642-681
MsgRestricted == <<"[access_restricted]">>                         \* line 639
MsgOfflineHeader == <<"[offline_messages]">>                       \* line 780
MsgAiOn == <<"[ai_enabled]">>                                      \* line 696
MsgAiOffCmd == <<"[ai_disabled]">>                                 \* line 699
MsgAiUsage == <<"[ai_usage]">>                                     \* line 701
MsgModelChanged(m) == <<"[model_changed]", m>>                     \* line 720
MsgTasksCleared == <<"[all_tasks_cleared]">>                       \* line 831
MsgCancelled == <<"[cancelled]">>                                  \* line 833
DefaultOfflineMessage == <<"[jarvis_is_offline]">>                 \* line 80
SystemPrompt == <<"[system_prompt]">>                              \* lines 339-391

VARIABLES
    apiKey,               \* OPENROUTER_API_KEY of the environment
    offline_mode,         \* self.offline_mode
    offline_message,      \* self.offline_message
    conversation_memory,  \* self.conversation_memory: user -> entries
    tasks,                \* table tasks, in rowid order
    task_seq,             \* the AUTOINCREMENT counter of table tasks
    notes,                \* table notes, in rowid order
    settings,             \* table settings: user -> row
    offline_messages,     \* table offline_messages, in rowid order
    ai_conversations,     \* table ai_conversations, in rowid order
    reminders,            \* table reminders, in rowid order
    jobs,                 \* the scheduler's pending jobs
    clock,                \* the wall clock
    in_flight,            \* the runs of handle_message suspended at an await
    sent_reminders,       \* the send_message calls of send_reminder, in order
    last                  \* what the last handler run was given and did

vars == <<apiKey, offline_mode, offline_message, conversation_memory, tasks,
          task_seq, notes, settings, offline_messages, ai_conversations,
          reminders, jobs, clock, in_flight, sent_reminders, last>>

(***************************************************************************)
(* SQL helpers.  SQLite scans a table in rowid order and its sorter keeps  *)
(* rows with equal keys in scan order.                                     *)
(***************************************************************************)
\* the indices idx (sorted by key) with index i inserted after its equals
RECURSIVE SortedInsert(_, _, _, _)
SortedInsert(idx, i, key, desc) ==
    IF idx = <<>> THEN <<i>>
    ELSE IF (IF desc THEN key[i] > key[Head(idx)] ELSE key[i] < key[Head(idx)])
         THEN <<i>> \o idx
         ELSE <<Head(idx)>> \o SortedInsert(Tail(idx), i, key, desc)

RECURSIVE SortedIndices(_, _, _)
SortedIndices(key, n, desc) ==
    IF n = 0 THEN <<>>
    ELSE SortedInsert(SortedIndices(key, n - 1, desc), n, key, desc)

\* ORDER BY <key> [DESC] over rows whose keys are key[1..Len(rows)]
OrderBy(rows, key, desc) ==
    LET idx == SortedIndices(key, Len(rows), desc)
    IN [j \in 1..Len(rows) |-> rows[idx[j]]]

\* LIMIT n
Limit(rows, n) == SubSeq(rows, 1, IF Len(rows) < n THEN Len(rows) ELSE n)

\* DATE(t): the calendar day of a timestamp
DateOf(t) == t \div MINUTES_PER_DAY

\* strftime('%m/%d')
FormatDate(t) == <<"[date]">> \o ToStr(DateOf(t))

\* IncompleteTasks without its filter on completed
IncompleteTasks_AllTasks(u) ==
    LET IsMine(t) == t.user_id = u
        rows == SelectSeq(tasks, IsMine)
    IN OrderBy(rows, [j \in 1..Len(rows) |-> rows[j].created_at], FALSE)

\* SELECT ... FROM tasks WHERE user_id = ? AND completed = FALSE
\* ORDER BY created_at   (lines 173, 198)
IncompleteTasks(u) ==
    LET IsOpen(t) == t.user_id = u /\ ~t.completed
        rows == SelectSeq(tasks, IsOpen)
    IN OrderBy(rows, [j \in 1..Len(rows) |-> rows[j].created_at], FALSE)

\* SELECT content, created_at FROM notes WHERE user_id = ?
\* ORDER BY created_at DESC LIMIT 10   (line 226)
RecentNotes(u) ==
    LET IsMine(n) == n.user_id = u
        rows == SelectSeq(notes, IsMine)
    IN Limit(OrderBy(rows, [j \in 1..Len(rows) |-> rows[j].created_at], TRUE), 10)

\* COUNT(*) of the rows satisfying Test
CountRows(rows, Test(_)) == Len(SelectSeq(rows, Test))

(***************************************************************************)
(* parse_time_string (lines 478-519).  The result is ok = FALSE for the    *)
(* ValueError, else the timestamp.                                         *)
(***************************************************************************)
UpperCase == <<"A","B","C","D","E","F","G","H","I","J","K","L","M",
               "N","O","P","Q","R","S","T","U","V","W","X","Y","Z">>
LowerCase == <<"a","b","c","d","e","f","g","h","i","j","k","l","m",
               "n","o","p","q","r","s","t","u","v","w","x","y","z">>

\* str.lower()
Lower(s) ==
    [i \in 1..Len(s) |->
        IF \E k \in 1..26 : UpperCase[k] = s[i]
        THEN LowerCase[CHOOSE k \in 1..26 : UpperCase[k] = s[i]]
        ELSE s[i]]

\* The unit alternatives of the three patterns (lines 485-487).  A Persian
\* unit word is one symbol.  Every Latin alternative begins with the
\* one-letter alternative, so a match is decided by that letter.
UnitStarts == << {"[daghighe]", "m"}, {"[saat]", "h"}, {"[rooz]", "d"} >>

\* the end of the run of digits that starts at s[i]
RECURSIVE DigitRunEnd(_, _)
DigitRunEnd(s, i) ==
    IF i + 1 <= Len(s) /\ IsDigit(s[i + 1]) THEN DigitRunEnd(s, i + 1) ELSE i

\* re.search(r'(\d+)\s*(?:unit)', s) from position i on: the leftmost
\* digit run followed by optional whitespace and a unit of `units`
RECURSIVE SearchNumberUnit(_, _, _)
SearchNumberUnit(s, i, units) ==
    IF i > Len(s) THEN [ok |-> FALSE, value |-> 0]
    ELSE IF ~IsDigit(s[i]) THEN SearchNumberUnit(s, i + 1, units)
    ELSE LET e == DigitRunEnd(s, i)
             u == SkipWs(s, e + 1)
         IN IF u <= Len(s) /\ s[u] \in units
            THEN [ok |-> TRUE, value |-> DigitsValue(SubSeq(s, i, e))]
            ELSE SearchNumberUnit(s, e + 1, units)

\* timedelta(minutes=v), timedelta(hours=v), timedelta(days=v)
UnitMinutes == <<1, MINUTES_PER_HOUR, MINUTES_PER_DAY>>

\* re.match(r'^(\d+)([mhd])$', s): the fallback of lines 503-519
FallbackMatch(s) ==
    IF /\ Len(s) >= 2
       /\ \A i \in 1..(Len(s) - 1) : IsDigit(s[i])
       /\ s[Len(s)] \in {"m", "h", "d"}
    THEN [ok |-> TRUE,
          value |-> DigitsValue(SubSeq(s, 1, Len(s) - 1))
                    * UnitMinutes[CHOOSE k \in 1..3 : s[Len(s)] = <<"m", "h", "d">>[k]]]
    ELSE [ok |-> FALSE, value |-> 0]

parse_time_string(time_str, now) ==
    LET s == Strip(Lower(time_str))
        m == [k \in 1..3 |-> SearchNumberUnit(s, 1, UnitStarts[k])]
    IN IF m[1].ok THEN [ok |-> TRUE, value |-> now + m[1].value * UnitMinutes[1]]
       ELSE IF m[2].ok THEN [ok |-> TRUE, value |-> now + m[2].value * UnitMinutes[2]]
       ELSE IF m[3].ok THEN [ok |-> TRUE, value |-> now + m[3].value * UnitMinutes[3]]
       ELSE LET f == FallbackMatch(s)
            IN [ok |-> f.ok, value |-> now + f.value]

(***************************************************************************)
(* execute_function (lines 155-326): the set of outcomes of one call in    *)
(* the current state.  An outcome is the returned string and the tables    *)
(* and scheduler jobs as the call leaves them.                             *)
(***************************************************************************)
\* an outcome that writes nothing
Returns(result) ==
    [result |-> result, tasks |-> tasks, task_seq |-> task_seq, notes |-> notes,
     reminders |-> reminders, jobs |-> jobs]

\* the lines of list_tasks (lines 181-183), from row i on
RECURSIVE FormatTasks(_, _)
FormatTasks(rows, i) ==
    IF i > Len(rows) THEN <<>>
    ELSE ToStr(i) \o <<".", " ">> \o rows[i].description \o <<" ">>
         \o FormatDate(rows[i].created_at) \o <<"\n">> \o FormatTasks(rows, i + 1)

\* the lines of list_notes (lines 234-236), from row i on
RECURSIVE FormatNotes(_, _)
FormatNotes(rows, i) ==
    IF i > Len(rows) THEN <<>>
    ELSE rows[i].content \o <<" ">> \o FormatDate(rows[i].created_at)
         \o <<"\n", "\n">> \o FormatNotes(rows, i + 1)

\* add_task without the test of line 160
add_task_Unchecked(parameters, user_id) ==
    LET description == DictGet(parameters, KeyDescription, <<>>) IN
    {[Returns(MsgTaskAdded(description)) EXCEPT
        !.tasks = Append(tasks, [id |-> task_seq + 1, user_id |-> user_id,
                                 description |-> description,
                                 created_at |-> clock, completed |-> FALSE]),
        !.task_seq = task_seq + 1]}

\* lines 158-168
add_task(parameters, user_id) ==
    LET description == DictGet(parameters, KeyDescription, <<>>) IN
    IF description = <<>> THEN {Returns(MsgNeedDescription)}
    ELSE {[Returns(MsgTaskAdded(description)) EXCEPT
             !.tasks = Append(tasks, [id |-> task_seq + 1, user_id |-> user_id,
                                      description |-> description,
                                      created_at |-> clock, completed |-> FALSE]),
             !.task_seq = task_seq + 1]}

\* list_tasks marking the rows it lists as completed
list_tasks_Completing(user_id) ==
    LET rows == IncompleteTasks(user_id) IN
    IF rows = <<>> THEN {Returns(MsgNoTasks)}
    ELSE {[Returns(MsgTasksHeader \o FormatTasks(rows, 1)) EXCEPT
             !.tasks = [j \in 1..Len(tasks) |->
                          IF tasks[j].user_id = user_id
                          THEN [tasks[j] EXCEPT !.completed = TRUE]
                          ELSE tasks[j]]]}

\* lines 170-184
list_tasks(user_id) ==
    LET rows == IncompleteTasks(user_id) IN
    IF rows = <<>> THEN {Returns(MsgNoTasks)}
    ELSE {Returns(MsgTasksHeader \o FormatTasks(rows, 1))}

\* UPDATE tasks SET completed = TRUE WHERE id = ?   (line 206)
MarkCompleted(task_id) ==
    [j \in 1..Len(tasks) |->
        IF tasks[j].id = task_id THEN [tasks[j] EXCEPT !.completed = TRUE]
        ELSE tasks[j]]

\* lines 186-209
complete_task(parameters, user_id) ==
    LET task_number == DictGet(parameters, KeyTaskNumber, <<>>)
        n == ParseInt(task_number)
        rows == IncompleteTasks(user_id)
    IN IF task_number = <<>> THEN {Returns(MsgWhichTask)}
       ELSE IF ~n.ok THEN {Returns(MsgNotNumber)}
       ELSE IF rows = <<>> \/ n.value < 1 \/ n.value > Len(rows)
            THEN {Returns(MsgInvalidNumber)}
       ELSE {[Returns(MsgTaskCompleted(rows[n.value].description)) EXCEPT
                !.tasks = MarkCompleted(rows[n.value].id)]}

\* lines 211-221
add_note(parameters, user_id) ==
    LET content == DictGet(parameters, KeyContent, <<>>) IN
    IF content = <<>> THEN {Returns(MsgNeedContent)}
    ELSE {[Returns(MsgNoteSaved(content)) EXCEPT
             !.notes = Append(notes, [user_id |-> user_id, content |-> content,
                                      created_at |-> clock])]}

\* lines 223-237
list_notes(user_id) ==
    LET rows == RecentNotes(user_id) IN
    IF rows = <<>> THEN {Returns(MsgNoNotes)}
    ELSE {Returns(MsgNotesHeader \o FormatNotes(rows, 1))}

\* lines 260-268: the job is registered under the reminder's id and the
\* confirmation is returned
add_job(inserted, reminder_id, run_date, user_id, description) ==
    [Returns(MsgReminderSet(description, ToStr(run_date))) EXCEPT
       !.reminders = inserted,
       !.jobs = jobs \cup {[id |-> reminder_id, run_date |-> run_date,
                            user_id |-> user_id, description |-> description]}]

\* lines 239-268.  The row is committed (line 256) before the job is
\* registered (line 260): when add_job raises, the handler of line 324
\* returns the error text and the row stays.
set_reminder(parameters, user_id) ==
    LET time_str == DictGet(parameters, KeyTime, <<>>)
        description == DictGet(parameters, KeyDescription, <<>>)
        reminder_time == parse_time_string(time_str, clock)
        reminder_id == Len(reminders) + 1
    IN IF time_str = <<>> \/ description = <<>> THEN {Returns(MsgNeedReminder)}
       ELSE IF ~reminder_time.ok THEN {Returns(MsgBadTime)}
       ELSE LET inserted == Append(reminders,
                    [id |-> reminder_id, user_id |-> user_id,
                     description |-> description,
                     reminder_time |-> reminder_time.value,
                     created_at |-> clock, completed |-> FALSE])
            IN {add_job(inserted, reminder_id, reminder_time.value, user_id, description),
                [Returns(MsgFunctionError) EXCEPT !.reminders = inserted]}

\* lines 270-281: random.choice(tips)
get_tip == {Returns(MsgTip(ToStr(i))) : i \in 1..NUM_TIPS}

\* lines 283-291: random.choice(quotes)
get_quote == {Returns(MsgQuote(ToStr(i))) : i \in 1..NUM_QUOTES}

\* lines 293-319
get_summary(user_id) ==
    LET today == DateOf(clock)
        DoneToday(t) == t.user_id = user_id /\ t.completed /\ DateOf(t.created_at) = today
        Pending(t) == t.user_id = user_id /\ ~t.completed
        Today(r) == r.user_id = user_id /\ DateOf(r.created_at) = today
    IN {Returns(MsgSummary(ToStr(today),
                           ToStr(CountRows(tasks, DoneToday)),
                           ToStr(CountRows(tasks, Pending)),
                           ToStr(CountRows(notes, Today)),
                           ToStr(CountRows(ai_conversations, Today))))}

ExecuteFunction(function_name, parameters, user_id) ==
    IF function_name = FnAddTask THEN add_task(parameters, user_id)
    ELSE IF function_name = FnListTasks THEN list_tasks(user_id)
    ELSE IF function_name = FnCompleteTask THEN complete_task(parameters, user_id)
    ELSE IF function_name = FnAddNote THEN add_note(parameters, user_id)
    ELSE IF function_name = FnListNotes THEN list_notes(user_id)
    ELSE IF function_name = FnSetReminder THEN set_reminder(parameters, user_id)
    ELSE IF function_name = FnGetTip THEN get_tip
    ELSE IF function_name = FnGetQuote THEN get_quote
    ELSE IF function_name = FnGetSummary THEN get_summary(user_id)
    ELSE {Returns(MsgUnknown(function_name))}

(***************************************************************************)
(* Settings (lines 119-126, 549-599).                                      *)
(***************************************************************************)
\* the column defaults of table settings (lines 121-125)
DefaultSettingsRow ==
    [daily_tip_enabled |-> TRUE, daily_tip_time |-> "09:00", voice_replies |-> FALSE,
     ai_enabled |-> TRUE, ai_model |-> "openai/gpt-3.5-turbo"]

\* the mapping f with key k set to v
Upsert(f, k, v) == [x \in (DOMAIN f) \cup {k} |-> IF x = k THEN v ELSE f[x]]

\* the mapping f without key k
Without(f, k) == [x \in (DOMAIN f) \ {k} |-> f[x]]

\* self.ai_enabled (line 84)
ai_enabled == apiKey # PLACEHOLDER_KEY

\* lines 549-559
get_user_ai_model(user_id) ==
    IF user_id \in DOMAIN settings /\ settings[user_id].ai_model # ""
    THEN settings[user_id].ai_model ELSE DEFAULT_MODEL

\* lines 561-571
is_user_ai_enabled(user_id) ==
    IF user_id \in DOMAIN settings THEN settings[user_id].ai_enabled ELSE TRUE

\* lines 573-585: INSERT OR REPLACE INTO settings (user_id, ai_enabled).  The
\* row of user_id, if any, is deleted and a new row is inserted: the columns
\* the statement does not name take their defaults.
set_user_ai_setting(user_id, enabled) ==
    Upsert(settings, user_id, [DefaultSettingsRow EXCEPT !.ai_enabled = enabled])

\* lines 587-599: INSERT OR REPLACE INTO settings (user_id, ai_model)
set_user_ai_model(user_id, model) ==
    Upsert(settings, user_id, [DefaultSettingsRow EXCEPT !.ai_model = model])

(***************************************************************************)
(* get_ai_response (lines 328-476).                                        *)
(***************************************************************************)
UserEntry(m) == [role |-> "user", content |-> m]
AssistantEntry(m) == [role |-> "assistant", content |-> m]
SystemEntry == [role |-> "system", content |-> SystemPrompt]

\* s[-n:]
LastN(s, n) == IF Len(s) <= n THEN s ELSE SubSeq(s, Len(s) - n + 1, Len(s))

\* MemoryInit assigning the empty list whether or not the user has entries
MemoryInit_Reset(user_id) == Upsert(conversation_memory, user_id, <<>>)

\* lines 335-336
MemoryInit(user_id) ==
    IF user_id \in DOMAIN conversation_memory THEN conversation_memory
    ELSE Upsert(conversation_memory, user_id, <<>>)

\* BuildMessages with the last 6 entries for the last 3
BuildMessages_LastSix(entries, message) ==
    <<SystemEntry>> \o LastN(entries, 6) \o <<UserEntry(message)>>

\* lines 394-401: the messages of the request
BuildMessages(entries, message) ==
    <<SystemEntry>> \o LastN(entries, 3) \o <<UserEntry(message)>>

\* IsDirective with the marker looked for anywhere in the text
IsDirective_Anywhere(ai_response) == FindFrom(ai_response, EXECUTE_MARKER, 1) # 0

\* line 430
IsDirective(ai_response) == StartsWith(ai_response, EXECUTE_MARKER)

\* line 433
DirectiveParts(ai_response) ==
    Split(Strip(Replace(ai_response, EXECUTE_MARKER, <<>>)), SEPARATOR)

\* lines 433-435
ParseDirective(ai_response) ==
    LET parts == DirectiveParts(ai_response) IN
    [function_name |-> Strip(parts[1]),
     parameters |-> IF Len(parts) > 1 THEN JsonLoads(parts[2])
                    ELSE [ok |-> TRUE, value |-> EmptyDict, next |-> 0]]

\* lines 441-442: the memory after the directive branch's two appends
DirectiveMemory(entries, message, function_result) ==
    entries \o <<UserEntry(message), AssistantEntry(function_result)>>

\* ConversationMemory keeping the last 5 entries for the last 6
ConversationMemory_LastFive(entries, message, ai_response) ==
    LET appended == entries \o <<UserEntry(message), AssistantEntry(ai_response)>>
    IN IF Len(appended) > 6 THEN LastN(appended, 5) ELSE appended

\* lines 456-461: the memory after the conversation branch
ConversationMemory(entries, message, ai_response) ==
    LET appended == entries \o <<UserEntry(message), AssistantEntry(ai_response)>>
    IN IF Len(appended) > 6 THEN LastN(appended, 6) ELSE appended

\* save_ai_conversation with the default model for the model used
save_ai_conversation_DefaultModel(user_id, message, response, model) ==
    Append(ai_conversations,
           [user_id |-> user_id, message |-> message, response |-> response,
            model_used |-> DEFAULT_MODEL, created_at |-> clock])

\* lines 535-547
save_ai_conversation(user_id, message, response, model) ==
    Append(ai_conversations,
           [user_id |-> user_id, message |-> message, response |-> response,
            model_used |-> model, created_at |-> clock])

\* the answers of the external endpoint
HttpOk(content) == [kind |-> "ok", status |-> 200, content |-> content]
HttpStatus(code) == [kind |-> "status", status |-> code, content |-> <<>>]
HttpTimeout == [kind |-> "timeout", status |-> 0, content |-> <<>>]
HttpError == [kind |-> "error", status |-> 0, content |-> <<>>]

\* Lines 425-476: what get_ai_response does once the endpoint has answered
\* http.  memory is self.conversation_memory at that moment, model and
\* request are the locals of lines 394-404.  An outcome is the reply, the
\* state the call leaves and the dispatcher calls it made.  When the user's
\* key has left the memory since line 336, the append of line 441 raises
\* after execute_function has run and line 451 returns the error text; the
\* append of line 456 raises into the handler of line 474.
AfterPost(memory, user_id, message, model, request, http) ==
    LET Outcome(reply, mem, log, db, calls) ==
            [reply |-> reply,
             conversation_memory |-> mem,
             ai_conversations |-> log,
             tasks |-> db.tasks, task_seq |-> db.task_seq, notes |-> db.notes,
             reminders |-> db.reminders, jobs |-> db.jobs,
             requested |-> TRUE, request |-> request,
             model |-> model, calls |-> calls]
        Failed(reply) ==
            {Outcome(reply, memory, ai_conversations, Returns(<<>>), <<>>)}
    IN IF http.kind = "timeout" THEN Failed(MsgTimeout)
       ELSE IF http.kind = "error" THEN Failed(MsgAiError)
       ELSE IF http.status # 200 THEN Failed(MsgStatusError(ToStr(http.status)))
       ELSE IF IsDirective(http.content)
       THEN LET d == ParseDirective(http.content) IN
            IF ~d.parameters.ok THEN Failed(MsgDirectiveError)
            ELSE {LET calls == <<[function_name |-> d.function_name,
                                  parameters |-> d.parameters.value,
                                  result |-> o.result]>>
                  IN IF user_id \in DOMAIN memory
                     THEN Outcome(o.result,
                                  Upsert(memory, user_id,
                                         DirectiveMemory(memory[user_id], message,
                                                         o.result)),
                                  save_ai_conversation(user_id, message, o.result, model),
                                  o, calls)
                     ELSE Outcome(MsgDirectiveError, memory, ai_conversations, o, calls)
                  : o \in ExecuteFunction(d.function_name, d.parameters.value, user_id)}
       ELSE IF user_id \in DOMAIN memory
       THEN {Outcome(http.content,
                     Upsert(memory, user_id,
                            ConversationMemory(memory[user_id], message, http.content)),
                     save_ai_conversation(user_id, message, http.content, model),
                     Returns(<<>>), <<>>)}
       ELSE Failed(MsgAiError)

\* The outcomes of one call that runs without another handler in between:
\* the reply, the state it leaves, the request it sent and the dispatcher
\* calls it made.
get_ai_response(user_id, message, http) ==
    LET memory == MemoryInit(user_id)
        model == get_user_ai_model(user_id)
    IN IF ~ai_enabled
       THEN {[reply |-> MsgAiOff,
              conversation_memory |-> conversation_memory,
              ai_conversations |-> ai_conversations,
              tasks |-> tasks, task_seq |-> task_seq, notes |-> notes,
              reminders |-> reminders, jobs |-> jobs,
              requested |-> FALSE, request |-> <<>>,
              model |-> model, calls |-> <<>>]}
       ELSE AfterPost(memory, user_id, message, model,
                      BuildMessages(memory[user_id], message), http)

(***************************************************************************)
(* The handlers (lines 602-841).  `last` records the run: the handler, the *)
(* sender, the text or arguments, the replies sent, and for a message      *)
(* whether get_ai_response was called, the request it sent, the endpoint's *)
(* answer and the dispatcher calls; for set_online the rows it fetched.    *)
(***************************************************************************)
HttpNone == [kind |-> "none", status |-> 0, content |-> <<>>]

Observed(handler, user_id, text, replies) ==
    [handler |-> handler, user |-> user_id, text |-> text, replies |-> replies,
     requested |-> FALSE, request |-> <<>>, model |-> "", http |-> HttpNone,
     calls |-> <<>>, rows |-> <<>>]

is_owner(user_id) == user_id = OWNER_ID

OnOff(b) == IF b THEN "on" ELSE "off"

\* lines 602-635
StartCommand(user_id) ==
    /\ last' = Observed("start_command", user_id, <<>>,
                        IF is_owner(user_id) THEN <<MsgStart(OnOff(ai_enabled))>>
                        ELSE <<MsgDecline>>)
    /\ UNCHANGED <<in_flight, sent_reminders>>
    /\ UNCHANGED <<apiKey, offline_mode, offline_message, conversation_memory,
                   tasks, task_seq, notes, settings, offline_messages,
                   ai_conversations, reminders, jobs, clock>>

\* lines 637-683
HelpCommand(user_id) ==
    /\ last' = Observed("help_command", user_id, <<>>,
                        IF is_owner(user_id)
                        THEN <<MsgHelp(OnOff(ai_enabled), get_user_ai_model(OWNER_ID))>>
                        ELSE <<MsgRestricted>>)
    /\ UNCHANGED <<in_flight, sent_reminders>>
    /\ UNCHANGED <<apiKey, offline_mode, offline_message, conversation_memory,
                   tasks, task_seq, notes, settings, offline_messages,
                   ai_conversations, reminders, jobs, clock>>

\* lines 685-708; setting stands for context.args[0], <<>> for no args
AiCommand(user_id, setting) ==
    /\ IF ~is_owner(user_id)
       THEN /\ last' = Observed("ai_command", user_id, setting, <<>>)
            /\ UNCHANGED settings
       ELSE IF Lower(setting) \in {<<"o","n">>, <<"e","n","a","b","l","e">>, <<"[faal]">>}
       THEN /\ settings' = set_user_ai_setting(user_id, TRUE)
            /\ last' = Observed("ai_command", user_id, setting, <<MsgAiOn>>)
       ELSE IF Lower(setting) \in {<<"o","f","f">>, <<"d","i","s","a","b","l","e">>,
                                   <<"[gheyr_faal]">>}
       THEN /\ settings' = set_user_ai_setting(user_id, FALSE)
            /\ last' = Observed("ai_command", user_id, setting, <<MsgAiOffCmd>>)
       ELSE IF setting # <<>>
       THEN /\ last' = Observed("ai_command", user_id, setting, <<MsgAiUsage>>)
            /\ UNCHANGED settings
       ELSE /\ last' = Observed("ai_command", user_id, setting,
                                <<MsgAiStatus(OnOff(is_user_ai_enabled(user_id)),
                                              get_user_ai_model(user_id))>>)
            /\ UNCHANGED settings
    /\ UNCHANGED <<in_flight, sent_reminders>>
    /\ UNCHANGED <<apiKey, offline_mode, offline_message, conversation_memory,
                   tasks, task_seq, notes, offline_messages, ai_conversations,
                   reminders, jobs, clock>>

\* lines 710-740; new_model stands for ' '.join(context.args), "" for no args
ModelCommand(user_id, new_model) ==
    /\ IF ~is_owner(user_id)
       THEN /\ last' = Observed("model_command", user_id, <<new_model>>, <<>>)
            /\ UNCHANGED settings
       ELSE IF new_model # ""
       THEN /\ settings' = set_user_ai_model(user_id, new_model)
            /\ last' = Observed("model_command", user_id, <<new_model>>,
                                <<MsgModelChanged(new_model)>>)
       ELSE /\ last' = Observed("model_command", user_id, <<new_model>>,
                                <<MsgModels(get_user_ai_model(user_id))>>)
            /\ UNCHANGED settings
    /\ UNCHANGED <<in_flight, sent_reminders>>
    /\ UNCHANGED <<apiKey, offline_mode, offline_message, conversation_memory,
                   tasks, task_seq, notes, offline_messages, ai_conversations,
                   reminders, jobs, clock>>

\* lines 742-751
ClearConversation(user_id) ==
    /\ IF ~is_owner(user_id)
       THEN /\ last' = Observed("clear_conversation", user_id, <<>>, <<>>)
            /\ UNCHANGED conversation_memory
       ELSE /\ conversation_memory' = Without(conversation_memory, user_id)
            /\ last' = Observed("clear_conversation", user_id, <<>>, <<MsgCleared>>)
    /\ UNCHANGED <<in_flight, sent_reminders>>
    /\ UNCHANGED <<apiKey, offline_mode, offline_message, tasks, task_seq, notes,
                   settings, offline_messages, ai_conversations, reminders, jobs,
                   clock>>

\* lines 753-762; text stands for ' '.join(context.args), <<>> for no args
SetOffline(user_id, text) ==
    /\ IF ~is_owner(user_id)
       THEN /\ last' = Observed("set_offline", user_id, text, <<>>)
            /\ UNCHANGED <<offline_mode, offline_message>>
       ELSE /\ offline_message' = IF text # <<>> THEN text ELSE offline_message
            /\ offline_mode' = TRUE
            /\ last' = Observed("set_offline", user_id, text,
                                <<MsgOfflineOn(offline_message')>>)
    /\ UNCHANGED <<in_flight, sent_reminders>>
    /\ UNCHANGED <<apiKey, conversation_memory, tasks, task_seq, notes, settings,
                   offline_messages, ai_conversations, reminders, jobs, clock>>

\* SELECT username, first_name, message, received_at FROM offline_messages
\* ORDER BY received_at DESC LIMIT 10   (line 773)
FetchOfflineMessages ==
    Limit(OrderBy(offline_messages,
                  [j \in 1..Len(offline_messages) |-> offline_messages[j].received_at],
                  TRUE),
          10)

\* lines 780-784, from row i on
RECURSIVE FormatOffline(_, _)
FormatOffline(rows, i) ==
    IF i > Len(rows) THEN <<>>
    ELSE <<rows[i].username, "(">> \o ToStr(rows[i].received_at) \o <<")", ":", "\n">>
         \o rows[i].message \o <<"\n", "\n">> \o FormatOffline(rows, i + 1)

\* lines 764-787
SetOnline(user_id) ==
    /\ IF ~is_owner(user_id)
       THEN /\ last' = Observed("set_online", user_id, <<>>, <<>>)
            /\ UNCHANGED <<offline_mode, offline_messages>>
       ELSE LET messages == FetchOfflineMessages IN
            /\ offline_mode' = FALSE
            /\ offline_messages' = <<>>
            /\ last' = [Observed("set_online", user_id, <<>>,
                                 IF messages # <<>>
                                 THEN <<MsgOfflineHeader \o FormatOffline(messages, 1),
                                        MsgOnlineAgain>>
                                 ELSE <<MsgOnlineAgain>>)
                        EXCEPT !.rows = messages]
    /\ UNCHANGED <<in_flight, sent_reminders>>
    /\ UNCHANGED <<apiKey, offline_message, conversation_memory, tasks, task_seq,
                   notes, settings, ai_conversations, reminders, jobs, clock>>

\* MessageBranch without the test of the owner
MessageBranch_NoOwnerTest(user_id) ==
    IF offline_mode /\ user_id # OWNER_ID THEN "queue"
    ELSE IF ai_enabled /\ is_user_ai_enabled(user_id) THEN "ai" ELSE "ai_off"

\* the branch handle_message takes (lines 794, 806, 808, 815, 817)
MessageBranch(user_id) ==
    IF offline_mode /\ user_id # OWNER_ID THEN "queue"
    ELSE IF user_id = OWNER_ID
    THEN IF ai_enabled /\ is_user_ai_enabled(user_id) THEN "ai" ELSE "ai_off"
    ELSE "decline"

\* lines 789-818; http is the answer the external endpoint gives if asked
HandleMessage(user_id, message_text, http) ==
    IF MessageBranch(user_id) = "queue"
    THEN /\ offline_messages' =
              Append(offline_messages,
                     [user_id |-> user_id, username |-> user_id,
                      first_name |-> user_id, message |-> message_text,
                      received_at |-> clock])
         /\ last' = Observed("handle_message", user_id, message_text,
                             <<offline_message>>)
         /\ UNCHANGED <<in_flight, sent_reminders>>
         /\ UNCHANGED <<apiKey, offline_mode, offline_message, conversation_memory,
                        tasks, task_seq, notes, settings, ai_conversations,
                        reminders, jobs, clock>>
    ELSE IF MessageBranch(user_id) = "ai"
    THEN \E r \in get_ai_response(user_id, message_text, http) :
           /\ conversation_memory' = r.conversation_memory
           /\ ai_conversations' = r.ai_conversations
           /\ tasks' = r.tasks
           /\ task_seq' = r.task_seq
           /\ notes' = r.notes
           /\ reminders' = r.reminders
           /\ jobs' = r.jobs
           /\ last' = [Observed("handle_message", user_id, message_text,
                                <<r.reply>>)
                       EXCEPT !.requested = r.requested, !.request = r.request,
                              !.model = r.model,
                              !.http = IF r.requested THEN http ELSE HttpNone,
                              !.calls = r.calls]
           /\ UNCHANGED <<in_flight, sent_reminders>>
           /\ UNCHANGED <<apiKey, offline_mode, offline_message, settings,
                          offline_messages, clock>>
    ELSE IF MessageBranch(user_id) = "ai_off"
    THEN /\ last' = Observed("handle_message", user_id, message_text,
                             <<MsgAiDisabledHint>>)
         /\ UNCHANGED <<in_flight, sent_reminders>>
         /\ UNCHANGED <<apiKey, offline_mode, offline_message,
                        conversation_memory, tasks, task_seq, notes, settings,
                        offline_messages, ai_conversations, reminders, jobs,
                        clock>>
    ELSE /\ last' = Observed("handle_message", user_id, message_text, <<MsgDecline>>)
         /\ UNCHANGED <<in_flight, sent_reminders>>
         /\ UNCHANGED <<apiKey, offline_mode, offline_message, conversation_memory,
                        tasks, task_seq, notes, settings, offline_messages,
                        ai_conversations, reminders, jobs, clock>>

\* handle_message run as the coroutine it is, in three steps separated by
\* its awaits: up to send_chat_action (line 810), from there to the post of
\* line 419, and from the endpoint's answer to the reply (line 814).  A run
\* suspended at an await is a record of in_flight.
Suspended(run_id, user_id, message_text, pc, request, model) ==
    [run_id |-> run_id, user_id |-> user_id, message |-> message_text, pc |-> pc,
     request |-> request, model |-> model]

\* the least number no suspended run carries
FreeRunId == CHOOSE n \in 1..(Cardinality(in_flight) + 1) :
                /\ \A run \in in_flight : run.run_id # n
                /\ \A m \in 1..(n - 1) : \E run \in in_flight : run.run_id = m

\* lines 791-810: the owner's message passes the tests of lines 794-808 and
\* the handler awaits send_chat_action
BeginMessage(user_id, message_text) ==
    /\ MessageBranch(user_id) = "ai"
    /\ in_flight' = in_flight \cup {Suspended(FreeRunId, user_id, message_text,
                                              "typing", <<>>, "")}
    /\ UNCHANGED <<apiKey, offline_mode, offline_message, conversation_memory,
                   tasks, task_seq, notes, settings, offline_messages,
                   ai_conversations, reminders, jobs, clock, sent_reminders, last>>

\* lines 813, 330-419: get_ai_response is entered; it puts the user's key in
\* the memory, builds the request, reads the model and awaits the post
PrepareRequest(run) ==
    /\ run \in in_flight
    /\ run.pc = "typing"
    /\ IF ~ai_enabled
       THEN /\ in_flight' = in_flight \ {run}
            /\ last' = Observed("handle_message", run.user_id, run.message,
                                <<MsgAiOff>>)
            /\ UNCHANGED conversation_memory
       ELSE /\ conversation_memory' = MemoryInit(run.user_id)
            /\ in_flight' =
                 (in_flight \ {run})
                 \cup {Suspended(run.run_id, run.user_id, run.message, "post",
                                 BuildMessages(MemoryInit(run.user_id)[run.user_id],
                                               run.message),
                                 get_user_ai_model(run.user_id))}
            /\ UNCHANGED last
    /\ UNCHANGED <<apiKey, offline_mode, offline_message, tasks, task_seq, notes,
                   settings, offline_messages, ai_conversations, reminders, jobs,
                   clock, sent_reminders>>

\* lines 425-476, 814: the endpoint answers http, get_ai_response runs to its
\* return in the state of that moment and the reply is sent
CompleteRequest(run, http) ==
    /\ run \in in_flight
    /\ run.pc = "post"
    /\ \E r \in AfterPost(conversation_memory, run.user_id, run.message, run.model,
                          run.request, http) :
           /\ conversation_memory' = r.conversation_memory
           /\ ai_conversations' = r.ai_conversations
           /\ tasks' = r.tasks
           /\ task_seq' = r.task_seq
           /\ notes' = r.notes
           /\ reminders' = r.reminders
           /\ jobs' = r.jobs
           /\ last' = [Observed("handle_message", run.user_id, run.message,
                                <<r.reply>>)
                       EXCEPT !.requested = TRUE, !.request = r.request,
                              !.model = r.model, !.http = http, !.calls = r.calls]
    /\ in_flight' = in_flight \ {run}
    /\ UNCHANGED <<apiKey, offline_mode, offline_message, settings,
                   offline_messages, clock, sent_reminders>>

\* DELETE FROM tasks WHERE user_id = ?   (line 828)
DeleteTasksOf(user_id) ==
    LET Others(t) == t.user_id # user_id IN SelectSeq(tasks, Others)

\* lines 820-833
HandleCallback(user_id, data) ==
    /\ IF data = "clear_tasks_yes"
       THEN /\ tasks' = DeleteTasksOf(user_id)
            /\ last' = Observed("handle_callback", user_id, <<data>>, <<MsgTasksCleared>>)
       ELSE IF data = "clear_tasks_no"
       THEN /\ last' = Observed("handle_callback", user_id, <<data>>, <<MsgCancelled>>)
            /\ UNCHANGED tasks
       ELSE /\ last' = Observed("handle_callback", user_id, <<data>>, <<>>)
            /\ UNCHANGED tasks
    /\ UNCHANGED <<in_flight, sent_reminders>>
    /\ UNCHANGED <<apiKey, offline_mode, offline_message, conversation_memory,
                   task_seq, notes, settings, offline_messages, ai_conversations,
                   reminders, jobs, clock>>

\* a direct call of the dispatcher (line 155)
ExecuteFunctionCall(function_name, parameters, user_id) ==
    \E o \in ExecuteFunction(function_name, parameters, user_id) :
        /\ tasks' = o.tasks
        /\ task_seq' = o.task_seq
        /\ notes' = o.notes
        /\ reminders' = o.reminders
        /\ jobs' = o.jobs
        /\ last' = [Observed("execute_function", user_id, <<>>, <<o.result>>)
                    EXCEPT !.calls = <<[function_name |-> function_name,
                                        parameters |-> parameters,
                                        result |-> o.result]>>]
        /\ UNCHANGED <<in_flight, sent_reminders>>
        /\ UNCHANGED <<apiKey, offline_mode, offline_message, conversation_memory,
                       settings, offline_messages, ai_conversations, clock>>

\* UPDATE reminders SET completed = TRUE WHERE id = ?   (line 526)
MarkReminderCompleted(reminder_id) ==
    [j \in 1..Len(reminders) |->
        IF reminders[j].id = reminder_id THEN [reminders[j] EXCEPT !.completed = TRUE]
        ELSE reminders[j]]

\* send_reminder with the message sent before the record is updated, so
\* that a failed delivery skips the update
SendReminder_SendFirst(job, delivered) ==
    /\ job \in jobs
    /\ clock >= job.run_date
    /\ jobs' = jobs \ {job}
    /\ reminders' = IF delivered THEN MarkReminderCompleted(job.id) ELSE reminders
    /\ sent_reminders' = Append(sent_reminders,
                                [id |-> job.id, chat_id |-> job.user_id,
                                 text |-> MsgReminder(job.description),
                                 delivered |-> delivered])
    /\ UNCHANGED <<in_flight, apiKey, offline_mode, offline_message,
                   conversation_memory, tasks, task_seq, notes, settings,
                   offline_messages, ai_conversations, clock, last>>

\* lines 521-533, run by the scheduler when the one-shot job of lines
\* 260-265 is due: the job leaves the scheduler, the record is marked
\* completed, then the message is sent; delivered = FALSE stands for
\* send_message raising, which line 533 logs
SendReminder(job, delivered) ==
    /\ job \in jobs
    /\ clock >= job.run_date
    /\ jobs' = jobs \ {job}
    /\ reminders' = MarkReminderCompleted(job.id)
    /\ sent_reminders' = Append(sent_reminders,
                                [id |-> job.id, chat_id |-> job.user_id,
                                 text |-> MsgReminder(job.description),
                                 delivered |-> delivered])
    /\ UNCHANGED <<in_flight, apiKey, offline_mode, offline_message,
                   conversation_memory, tasks, task_seq, notes, settings,
                   offline_messages, ai_conversations, clock, last>>

\* the clock moves on by a minute
TickMinute ==
    /\ clock % MINUTES_PER_DAY < MaxMinutes
    /\ clock' = clock + 1
    /\ UNCHANGED <<in_flight, sent_reminders>>
    /\ UNCHANGED <<apiKey, offline_mode, offline_message, conversation_memory,
                   tasks, task_seq, notes, settings, offline_messages,
                   ai_conversations, reminders, jobs, last>>

\* the clock moves on to the next midnight
TickDay ==
    /\ DateOf(clock) < MaxDays
    /\ clock' = (DateOf(clock) + 1) * MINUTES_PER_DAY
    /\ UNCHANGED <<in_flight, sent_reminders>>
    /\ UNCHANGED <<apiKey, offline_mode, offline_message, conversation_memory,
                   tasks, task_seq, notes, settings, offline_messages,
                   ai_conversations, reminders, jobs, last>>

\* __init__ and init_database (lines 71-150) with the key of the environment
InitWith(keys) ==
    /\ apiKey \in keys
    /\ offline_mode = FALSE
    /\ offline_message = DefaultOfflineMessage
    /\ conversation_memory = [u \in {} |-> <<>>]
    /\ tasks = <<>>
    /\ task_seq = 0
    /\ notes = <<>>
    /\ settings = [u \in {} |-> DefaultSettingsRow]
    /\ offline_messages = <<>>
    /\ ai_conversations = <<>>
    /\ reminders = <<>>
    /\ jobs = {}
    /\ clock = 0
    /\ in_flight = {}
    /\ sent_reminders = <<>>
    /\ last = Observed("init", OWNER_ID, <<>>, <<>>)

(***************************************************************************)
(* Inputs: the texts users send and the answers of the external model.     *)
(***************************************************************************)
Text1 == <<"[m1]">>
Text2 == <<"[m2]">>

\* {"key": "value"}
JsonObject1(k, v) == <<"{", Quote>> \o k \o <<Quote, ":", " ", Quote>> \o v \o <<Quote, "}">>

\* EXECUTE_FUNCTION: name | payload
Directive(name, payload) == EXECUTE_MARKER \o <<" ">> \o name \o SEPARATOR \o payload

RespAddTaskX == Directive(FnAddTask, JsonObject1(KeyDescription, <<"x">>))
RespListTasks == Directive(FnListTasks, <<"{", "}">>)
RespListBare == EXECUTE_MARKER \o FnListTasks
RespComplete1 == Directive(FnCompleteTask, JsonObject1(KeyTaskNumber, <<"1">>))
RespAddNotePipe == Directive(FnAddNote, JsonObject1(KeyContent, <<"a", " ", "|", " ", "b">>))
RespAddNoteN == Directive(FnAddNote, JsonObject1(KeyContent, <<"n">>))
RespBadJson == Directive(FnAddTask, <<"{", "b", "a", "d">>)
RespUnknown == Directive(<<"f","r","o","b">>, <<"{", "}">>)
RespPlain == <<"o", "k">>
RespLeadingSpace == <<" ">> \o RespListTasks
RespMarkerInside == <<"s", "e", "e", " ">> \o RespListTasks
RespLowerCase == Lower(EXECUTE_MARKER) \o <<" ">> \o FnListTasks
RespMarkerOnly == SubSeq(EXECUTE_MARKER, 1, Len(EXECUTE_MARKER) - 1) \o <<" ">> \o FnListTasks

\* the owner sends a text; the endpoint, if asked, answers http
OwnerMessage(texts, answers, maxLog) ==
    \E text \in texts, http \in answers :
        /\ Len(ai_conversations) < maxLog
        /\ HandleMessage(OWNER_ID, text, http)

(***************************************************************************)
(* Spec: the orchestrator over several exchanges of the owner.             *)
(***************************************************************************)
Answers ==
    {HttpOk(RespAddTaskX), HttpOk(RespListTasks), HttpOk(RespPlain),
     HttpOk(RespBadJson), HttpStatus(500), HttpTimeout, HttpError}

Init == InitWith({KeyReal})

Next ==
    \/ OwnerMessage({Text1}, Answers, MaxLog)
    \/ ClearConversation(OWNER_ID)
    \/ \E m \in OtherModels : ModelCommand(OWNER_ID, m)

Spec == Init /\ [][Next]_vars

(***************************************************************************)
(* SpecParse: one exchange with each shape of model output.                *)
(***************************************************************************)
ParseAnswers ==
    {HttpOk(r) : r \in {RespAddTaskX, RespListTasks, RespListBare, RespComplete1,
                        RespAddNotePipe, RespAddNoteN, RespBadJson, RespUnknown,
                        RespPlain, RespLeadingSpace, RespMarkerInside,
                        RespLowerCase, RespMarkerOnly}}

NextParse ==
    \/ OwnerMessage({Text1, Text2}, ParseAnswers, MaxParseLog)
    \/ ClearConversation(OWNER_ID)

SpecParse == Init /\ [][NextParse]_vars

(***************************************************************************)
(* SpecRouter: the gates in front of the orchestrator and the settings     *)
(* commands, for every value of the API key.                               *)
(***************************************************************************)
RouterAnswers == {HttpOk(RespPlain), HttpStatus(401)}
Settings == {<<>>, <<"o","n">>, <<"O","F","F">>, <<"x">>}

InitRouter == InitWith(ApiKeys)

NextRouter ==
    \/ OwnerMessage({Text1}, RouterAnswers, MaxRouterLog)
    \/ \E u \in Users, setting \in Settings : AiCommand(u, setting)
    \/ \E u \in Users, m \in OtherModels \cup {""} : ModelCommand(u, m)
    \/ \E u \in Users : StartCommand(u)
    \/ \E u \in Users : HelpCommand(u)

SpecRouter == InitRouter /\ [][NextRouter]_vars

(***************************************************************************)
(* SpecOffline: offline mode, the queue of messages and non-owner senders. *)
(***************************************************************************)
OfflineAnswers == {HttpOk(RespAddTaskX), HttpStatus(500)}
CallbackData == {"clear_tasks_yes", "clear_tasks_no", "other"}

\* a non-owner sends a text
StrangerMessage(texts) ==
    \E text \in texts :
        /\ Len(offline_messages) < MaxOffline
        /\ HandleMessage(Stranger, text, HttpNone)

NextOffline ==
    \/ StrangerMessage({Text1})
    \/ OwnerMessage({Text1}, OfflineAnswers, MaxRouterLog)
    \/ \E u \in Users, text \in {<<>>, <<"[away]">>} : SetOffline(u, text)
    \/ \E u \in Users : SetOnline(u)
    \/ \E u \in Users, data \in CallbackData : HandleCallback(u, data)
    \/ TickMinute

SpecOffline == Init /\ [][NextOffline]_vars

(***************************************************************************)
(* SpecDispatch: the dispatcher's task functions called for the owner.     *)
(***************************************************************************)
TaskNumbers == {<<"1">>, <<"2">>, <<"3">>, <<"4">>}

NextDispatch ==
    \/ \E d \in {<<"x">>, <<"y">>} :
          /\ task_seq < MaxTasks
          /\ ExecuteFunctionCall(FnAddTask, KeyDescription :> d, OWNER_ID)
    \/ \E k \in TaskNumbers :
          ExecuteFunctionCall(FnCompleteTask, KeyTaskNumber :> k, OWNER_ID)
    \/ ExecuteFunctionCall(FnListTasks, EmptyDict, OWNER_ID)
    \/ HandleCallback(OWNER_ID, "clear_tasks_yes")
    \/ TickMinute
    \/ TickDay

SpecDispatch == Init /\ [][NextDispatch]_vars

(***************************************************************************)
(* SpecFunctions: every function of the dispatcher called for the owner,   *)
(* with parameters it accepts and parameters it rejects.                   *)
(***************************************************************************)
TimeOneMinute == <<"1", "m">>
TimeSoon == <<"s", "o", "o", "n">>

\* {"time": t, "description": d}
ReminderParameters(t, d) == (KeyTime :> t) @@ (KeyDescription :> d)

\* the calls the dispatcher answers with a user-input error (lines 161, 189,
\* 194, 203, 214, 244, 249, 322)
RejectedCalls ==
    {[function_name |-> <<"f","r","o","b">>, parameters |-> EmptyDict],
     [function_name |-> FnAddTask, parameters |-> EmptyDict],
     [function_name |-> FnAddTask, parameters |-> KeyDescription :> <<>>],
     [function_name |-> FnCompleteTask, parameters |-> EmptyDict],
     [function_name |-> FnCompleteTask, parameters |-> KeyTaskNumber :> <<"x">>],
     [function_name |-> FnCompleteTask, parameters |-> KeyTaskNumber :> <<"0">>],
     [function_name |-> FnCompleteTask, parameters |-> KeyTaskNumber :> <<"9">>],
     [function_name |-> FnAddNote, parameters |-> EmptyDict],
     [function_name |-> FnSetReminder, parameters |-> KeyTime :> TimeOneMinute],
     [function_name |-> FnSetReminder, parameters |-> KeyDescription :> <<"r">>],
     [function_name |-> FnSetReminder,
      parameters |-> ReminderParameters(TimeSoon, <<"r">>)]}

\* the calls without parameters
PlainCalls == {FnListTasks, FnListNotes, FnGetTip, FnGetQuote, FnGetSummary}

NextFunctions ==
    \/ /\ task_seq < MaxFnTasks
       /\ ExecuteFunctionCall(FnAddTask, KeyDescription :> <<"x">>, OWNER_ID)
    \/ \E k \in {<<"1">>, <<"2">>} :
          ExecuteFunctionCall(FnCompleteTask, KeyTaskNumber :> k, OWNER_ID)
    \/ /\ Len(notes) < MaxNotes
       /\ ExecuteFunctionCall(FnAddNote, KeyContent :> <<"n">>, OWNER_ID)
    \/ /\ Len(reminders) < MaxFnReminders
       /\ ExecuteFunctionCall(FnSetReminder,
                              ReminderParameters(TimeOneMinute, <<"r">>), OWNER_ID)
    \/ \E c \in RejectedCalls :
          ExecuteFunctionCall(c.function_name, c.parameters, OWNER_ID)
    \/ \E f \in PlainCalls : ExecuteFunctionCall(f, EmptyDict, OWNER_ID)

SpecFunctions == Init /\ [][NextFunctions]_vars

(***************************************************************************)
(* SpecReminder: reminders set with several time strings, the clock, and   *)
(* the scheduler running send_reminder for the jobs that are due.          *)
(* SpecReminderFair adds what the running process provides: time passes    *)
(* and the scheduler runs a job that is due.                               *)
(***************************************************************************)
TimeZero == <<"0", "m">>
TimeHourThenMinute == <<"1", "h", " ", "1", "m">>
TimePersianHour == <<" ", "1", " ", "[saat]">>
TimeOneDay == <<"1", "D">>
TimeUnitFirst == <<"m", "1">>

TimeStrings ==
    {TimeZero, TimeOneMinute, TimeHourThenMinute, TimePersianHour, TimeOneDay,
     TimeUnitFirst, TimeSoon}

\* a reminder is asked for while the clock of the model can still advance
\* by a day
SetReminderCall(time_str) ==
    /\ Len(reminders) < MaxReminders
    /\ DateOf(clock) < MaxDays
    /\ ExecuteFunctionCall(FnSetReminder, ReminderParameters(time_str, <<"r">>),
                           OWNER_ID)

\* the scheduler runs a due job
RunDueJob == \E job \in jobs, delivered \in BOOLEAN : SendReminder(job, delivered)

NextReminder ==
    \/ \E time_str \in TimeStrings : SetReminderCall(time_str)
    \/ RunDueJob
    \/ TickMinute
    \/ TickDay

SpecReminder == Init /\ [][NextReminder]_vars

SpecReminderFair ==
    /\ Init
    /\ [][NextReminder]_vars
    /\ WF_vars(TickMinute)
    /\ WF_vars(TickDay)
    /\ WF_vars(RunDueJob)

(***************************************************************************)
(* SpecSummary: tasks added and completed over several days, and the       *)
(* daily summary.                                                          *)
(***************************************************************************)
NextSummary ==
    \/ /\ task_seq < MaxTasks
       /\ ExecuteFunctionCall(FnAddTask, KeyDescription :> <<"x">>, OWNER_ID)
    \/ \E k \in {<<"1">>, <<"2">>} :
          ExecuteFunctionCall(FnCompleteTask, KeyTaskNumber :> k, OWNER_ID)
    \/ ExecuteFunctionCall(FnGetSummary, EmptyDict, OWNER_ID)
    \/ TickDay

SpecSummary == Init /\ [][NextSummary]_vars

(***************************************************************************)
(* SpecConcurrent: runs of handle_message for the owner that overlap at    *)
(* their awaits, with /clear handled in between.                           *)
(***************************************************************************)
ConcurrentAnswers == {HttpOk(RespAddTaskX), HttpOk(RespPlain), HttpTimeout}

NextConcurrent ==
    \/ /\ Cardinality(in_flight) < MaxInFlight
       /\ Len(ai_conversations) + Cardinality(in_flight) < MaxConcurrentLog
       /\ task_seq + Cardinality(in_flight) < MaxConcurrentLog
       /\ BeginMessage(OWNER_ID, Text1)
    \/ \E run \in in_flight : PrepareRequest(run)
    \/ \E run \in in_flight, http \in ConcurrentAnswers : CompleteRequest(run, http)
    \/ ClearConversation(OWNER_ID)

SpecConcurrent == Init /\ [][NextConcurrent]_vars

(***************************************************************************)
(* The claims.                                                             *)
(***************************************************************************)
\* the stored entries of a user, none when the user has no memory
MemOf(u) == IF u \in DOMAIN conversation_memory THEN conversation_memory[u] ELSE <<>>

\* C1: in every reachable state each user's conversation memory holds at
\* most 6 entries, whatever mix of directive and non-directive exchanges
\* was processed.
C1_MemoryAtMostSix ==
    \A u \in DOMAIN conversation_memory : Len(conversation_memory[u]) <= 6

\* C2: when the API key is absent the global AI flag is off and
\* handle_message never calls get_ai_response; get_ai_response is called
\* only when the global flag and the user's ai_enabled setting are both on.
C2_AbsentKeyDisablesAi ==
    /\ (apiKey = KeyAbsent /\ last.handler = "handle_message") => ~last.requested
    /\ (last.handler = "handle_message" /\ last.requested)
          => (ai_enabled /\ is_user_ai_enabled(last.user))

\* C3: a write of one setting (ai_enabled by /ai, ai_model by /model) leaves
\* the user's other stored setting as it was.
C3_OtherSettingKept ==
    [][\A u \in DOMAIN settings :
         /\ (\E setting \in Settings : AiCommand(u, setting))
               => settings'[u].ai_model = settings[u].ai_model
         /\ (\E m \in OtherModels \cup {""} : ModelCommand(u, m))
               => settings'[u].ai_enabled = settings[u].ai_enabled]_vars

\* C4: when the owner returns online every queued message, whatever their
\* number, is read into the summary and then deleted; none is deleted
\* without having been read out.
C4_QueueReadThenDeleted ==
    [][SetOnline(OWNER_ID) =>
         /\ offline_messages' = <<>>
         /\ Len(last'.rows) = Len(offline_messages)
         /\ \A i \in 1..Len(offline_messages) :
               \E j \in 1..Len(last'.rows) : last'.rows[j] = offline_messages[i]]_vars

\* the owner's incomplete tasks in creation order (rowids grow with creation)
OpenInCreationOrder ==
    LET IsOpen(t) == t.user_id = OWNER_ID /\ ~t.completed IN SelectSeq(tasks, IsOpen)

\* the sequence s without its k-th element
RemoveAt(s, k) == SubSeq(s, 1, k - 1) \o SubSeq(s, k + 1, Len(s))

\* the text list_tasks returns for these rows
ListText(rows) ==
    IF rows = <<>> THEN MsgNoTasks ELSE MsgTasksHeader \o FormatTasks(rows, 1)

\* C5: with n incomplete tasks in creation order and 1 <= k <= n,
\* complete_task(k) marks exactly the k-th of them completed and changes no
\* other task; list_tasks then shows the other n-1 in the same relative order.
C5_CompleteKthTask ==
    [][\A k \in 1..Len(OpenInCreationOrder) :
         ExecuteFunctionCall(FnCompleteTask, KeyTaskNumber :> ToStr(k), OWNER_ID)
         => /\ Len(tasks') = Len(tasks)
            /\ \A j \in 1..Len(tasks) :
                  tasks'[j] = IF tasks[j].id = OpenInCreationOrder[k].id
                              THEN [tasks[j] EXCEPT !.completed = TRUE]
                              ELSE tasks[j]
            /\ IncompleteTasks(OWNER_ID)' = RemoveAt(OpenInCreationOrder, k)
            /\ \A o \in list_tasks(OWNER_ID)' :
                  o.result = ListText(RemoveAt(OpenInCreationOrder, k))]_vars

\* complete_task(2) has just completed the second of three incomplete tasks
C5_Witness ==
    /\ last.handler = "execute_function"
    /\ last.calls[1].function_name = FnCompleteTask
    /\ last.calls[1].parameters[KeyTaskNumber] = <<"2">>
    /\ StartsWith(last.replies[1], <<"[task_completed]">>)
    /\ Len(IncompleteTasks(OWNER_ID)) = 2
    /\ Len(tasks) = 3

\* C6 as claimed: every message of a non-owner is answered with the fixed
\* decline message and nothing else happens: no call of the orchestrator or
\* the dispatcher and no write to a table, in offline mode too.
C6_NonOwnerDeclined ==
    [][HandleMessage(Stranger, Text1, HttpNone)
       => /\ last'.replies = <<MsgDecline>>
          /\ ~last'.requested
          /\ last'.calls = <<>>
          /\ UNCHANGED <<tasks, notes, reminders, settings, offline_messages,
                         ai_conversations>>]_vars

\* C6 as amended: a message of a non-owner never reaches the orchestrator or
\* the dispatcher; when the bot is not in offline mode it is answered with
\* the fixed decline message and no table is written; in offline mode it is
\* appended to offline_messages, the only table written, and answered with
\* the offline message.
C6_NonOwnerDeclinedOrQueued ==
    [][HandleMessage(Stranger, Text1, HttpNone)
       => /\ ~last'.requested
          /\ last'.calls = <<>>
          /\ UNCHANGED <<tasks, notes, reminders, settings, ai_conversations,
                         conversation_memory, jobs>>
          /\ IF offline_mode
             THEN /\ last'.replies = <<offline_message>>
                  /\ Len(offline_messages') = Len(offline_messages) + 1
                  /\ SubSeq(offline_messages', 1, Len(offline_messages))
                        = offline_messages
                  /\ offline_messages'[Len(offline_messages')].message = Text1
                  /\ offline_messages'[Len(offline_messages')].user_id = Stranger
             ELSE /\ last'.replies = <<MsgDecline>>
                  /\ UNCHANGED offline_messages]_vars

\* a non-owner's message has just been queued in offline mode
C6_Witness ==
    /\ last.handler = "handle_message"
    /\ last.user = Stranger
    /\ offline_mode
    /\ last.replies = <<offline_message>>
    /\ offline_messages # <<>>
    /\ offline_messages[Len(offline_messages)].user_id = Stranger

\* the text begins with the literal marker, character for character
BeginsWithMarker(text) ==
    /\ Len(text) >= Len(EXECUTE_MARKER)
    /\ \A i \in 1..Len(EXECUTE_MARKER) : text[i] = EXECUTE_MARKER[i]

\* C7: a model response is treated as a directive if and only if it begins
\* with the marker; any other response is returned verbatim and calls no
\* dispatcher function.
C7_DirectiveIffMarker ==
    (last.handler = "handle_message" /\ last.requested /\ last.http.kind = "ok")
    => IF BeginsWithMarker(last.http.content)
       THEN /\ last.calls # <<>> \/ last.replies = <<MsgDirectiveError>>
            /\ last.replies # <<last.http.content>>
       ELSE /\ last.replies = <<last.http.content>>
            /\ last.calls = <<>>

\* a response with the marker in the middle was returned verbatim
C7_Witness ==
    /\ last.handler = "handle_message"
    /\ last.http = HttpOk(RespMarkerInside)
    /\ last.replies = <<RespMarkerInside>>
    /\ last.calls = <<>>

\* s cut at the first occurrence of sep only
SplitFirst(s, sep) ==
    LET j == FindFrom(s, sep, 1) IN
    IF j = 0 THEN <<s>>
    ELSE <<SubSeq(s, 1, j - 1), SubSeq(s, j + Len(sep), Len(s))>>

\* C8: the text after the marker is split on the first ' | ' only, so a
\* payload that parses is dispatched whole, also when it contains ' | '.
C8_SplitOnFirstSeparator ==
    (/\ last.handler = "handle_message"
     /\ last.requested
     /\ last.http.kind = "ok"
     /\ BeginsWithMarker(last.http.content))
    => LET rest == Strip(Replace(last.http.content, EXECUTE_MARKER, <<>>))
           parts == SplitFirst(rest, SEPARATOR)
       IN (Len(parts) = 2 /\ JsonLoads(parts[2]).ok)
          => /\ Len(last.calls) = 1
             /\ last.calls[1].function_name = Strip(parts[1])
             /\ last.calls[1].parameters = JsonLoads(parts[2]).value

\* C9 as claimed: the request holds, between the system instruction and the
\* new message, the last 3 stored exchanges (up to 6 entries) in stored order.
C9_LastThreeExchanges ==
    [][\A http \in Answers :
         (HandleMessage(OWNER_ID, Text1, http) /\ last'.requested)
         => last'.request = <<SystemEntry>> \o LastN(MemOf(OWNER_ID), 6)
                            \o <<UserEntry(Text1)>>]_vars

\* C9 as amended: the request holds, between the system instruction and the
\* new message, the last 3 stored entries of that user (all of them when
\* fewer are stored), in stored order.
C9_LastThreeEntries ==
    [][\A http \in Answers :
         (HandleMessage(OWNER_ID, Text1, http) /\ last'.requested)
         => LET mem == MemOf(OWNER_ID)
                n == IF Len(mem) < 3 THEN Len(mem) ELSE 3
                req == last'.request
            IN /\ Len(req) = n + 2
               /\ req[1].role = "system"
               /\ req[n + 2] = UserEntry(Text1)
               /\ \A i \in 1..n : req[1 + i] = mem[Len(mem) - n + i]]_vars

\* a request was sent whose history starts in the middle of an exchange
C9_Witness ==
    /\ last.handler = "handle_message"
    /\ last.requested
    /\ Len(last.request) = 5
    /\ last.request[2].role = "assistant"

\* C10: for a recognized directive whose payload parses, the dispatcher is
\* called once, exactly the pair {user message, dispatcher result} is appended
\* to the memory, one log record tagged with the model used is inserted and
\* the dispatcher's result is returned.
C10_DirectiveExchange ==
    [][\A http \in Answers :
         (/\ HandleMessage(OWNER_ID, Text1, http)
          /\ last'.requested
          /\ http.kind = "ok"
          /\ BeginsWithMarker(http.content)
          /\ last'.replies # <<MsgDirectiveError>>)
         => /\ Len(last'.calls) = 1
            /\ conversation_memory'[OWNER_ID]
                 = MemOf(OWNER_ID) \o <<UserEntry(Text1),
                                        AssistantEntry(last'.calls[1].result)>>
            /\ last'.calls[1].result # http.content
            /\ last'.model = get_user_ai_model(OWNER_ID)
            /\ ai_conversations'
                 = Append(ai_conversations,
                          [user_id |-> OWNER_ID, message |-> Text1,
                           response |-> last'.calls[1].result,
                           model_used |-> last'.model, created_at |-> clock])
            /\ last'.replies = <<last'.calls[1].result>>]_vars

\* a directive was dispatched for an owner who had chosen another model
C10_Witness ==
    /\ last.handler = "handle_message"
    /\ Len(last.calls) = 1
    /\ last.calls[1].function_name = FnAddTask
    /\ last.model # DEFAULT_MODEL
    /\ ai_conversations # <<>>
    /\ ai_conversations[Len(ai_conversations)].model_used = last.model
    /\ last.replies = <<last.calls[1].result>>

\* the answers of the endpoint that make a request fail, and the text
\* get_ai_response returns for each (lines 451, 470, 473, 476)
FailedAnswers == {HttpStatus(500), HttpTimeout, HttpError, HttpOk(RespBadJson)}

FailureText(http) ==
    IF http = HttpTimeout THEN MsgTimeout
    ELSE IF http = HttpError THEN MsgAiError
    ELSE IF http = HttpOk(RespBadJson) THEN MsgDirectiveError
    ELSE MsgStatusError(ToStr(http.status))

\* C11: a failed request (timeout, non-200 status, unparseable directive
\* payload, any other exception) ends with its one error reply and leaves
\* the user's memory entries, the AI conversation log and the tables as they
\* were; the dispatcher is not called.
C11_FailureLeavesMemory ==
    [][\A http \in FailedAnswers :
         (HandleMessage(OWNER_ID, Text1, http) /\ last'.requested)
         => /\ MemOf(OWNER_ID)' = MemOf(OWNER_ID)
            /\ ai_conversations' = ai_conversations
            /\ last'.replies = <<FailureText(http)>>
            /\ last'.calls = <<>>
            /\ UNCHANGED <<tasks, task_seq, notes, reminders, jobs>>]_vars

\* a request timed out for an owner with stored entries and logged exchanges
C11_Witness ==
    /\ last.handler = "handle_message"
    /\ last.requested
    /\ last.http = HttpTimeout
    /\ last.replies = <<MsgTimeout>>
    /\ Len(MemOf(OWNER_ID)) >= 4
    /\ Len(ai_conversations) >= 2

\* the part of text between the symbols from and to
Between(text, from, to) ==
    LET i == FindFrom(text, <<from>>, 1)
        j == FindFrom(text, <<to>>, 1)
    IN SubSeq(text, i + 1, j - 1)

\* the first count of a summary text: the completed tasks of today
CompletedShown(text) == DigitsValue(Between(text, "[completed]", "[pending]"))

\* C12: the first count of get_summary is the number of the caller's tasks
\* completed during the current day, whatever day they were created on: a
\* complete_task that succeeds raises the count shown on that day by one.
C12_CompletedTodayCounted ==
    [][\A k \in 1..Len(OpenInCreationOrder) :
         ExecuteFunctionCall(FnCompleteTask, KeyTaskNumber :> ToStr(k), OWNER_ID)
         => \A before \in get_summary(OWNER_ID) :
              \A after \in get_summary(OWNER_ID)' :
                 CompletedShown(after.result) = CompletedShown(before.result) + 1]_vars

\* the text the dispatcher returns for a rejected call
RejectionText(c) ==
    IF c.function_name = FnAddTask THEN MsgNeedDescription
    ELSE IF c.function_name = FnAddNote THEN MsgNeedContent
    ELSE IF c.function_name = FnCompleteTask
    THEN IF KeyTaskNumber \notin DOMAIN c.parameters THEN MsgWhichTask
         ELSE IF c.parameters[KeyTaskNumber] = <<"x">> THEN MsgNotNumber
         ELSE MsgInvalidNumber
    ELSE IF c.function_name = FnSetReminder
    THEN IF DOMAIN c.parameters = {KeyTime, KeyDescription} THEN MsgBadTime
         ELSE MsgNeedReminder
    ELSE MsgUnknown(c.function_name)

\* C13: every user-input error of the dispatcher (unknown function, missing
\* or empty parameter, non-numeric or out-of-range task number, unparseable
\* reminder time) returns its formatted text and leaves tasks, notes,
\* reminders and the scheduled jobs unchanged.
C13_RejectedCallWritesNothing ==
    [][\A c \in RejectedCalls :
         ExecuteFunctionCall(c.function_name, c.parameters, OWNER_ID)
         => /\ last'.replies = <<RejectionText(c)>>
            /\ UNCHANGED <<tasks, task_seq, notes, reminders, jobs>>]_vars

\* an out-of-range task number was rejected while tasks, a note and a
\* reminder were stored
C13_Witness ==
    /\ last.handler = "execute_function"
    /\ last.calls[1].function_name = FnCompleteTask
    /\ last.replies = <<MsgInvalidNumber>>
    /\ Len(IncompleteTasks(OWNER_ID)) >= 1
    /\ notes # <<>>
    /\ reminders # <<>>

\* the reminder record with this id is completed
ReminderCompleted(id) ==
    \E i \in 1..Len(reminders) : reminders[i].id = id /\ reminders[i].completed

\* the delivery attempts made for the reminder with this id
Attempts(id) ==
    LET IsFor(e) == e.id = id IN Len(SelectSeq(sent_reminders, IsFor))

\* C14: while the process runs, every reminder whose job set_reminder
\* registered eventually has its record completed and exactly one delivery
\* attempt made; no second attempt is ever made, an attempt is made only
\* once the record is completed, and the completed flag stays set, also
\* when the delivery fails.
C14_ReminderFiresOnce ==
    /\ \A id \in 1..MaxReminders :
          (\E job \in jobs : job.id = id)
             ~> (ReminderCompleted(id) /\ Attempts(id) = 1)
    /\ [][\A id \in 1..MaxReminders :
            /\ Attempts(id)' <= 1
            /\ Attempts(id)' > Attempts(id) => ReminderCompleted(id)'
            /\ ReminderCompleted(id) => ReminderCompleted(id)']_vars

\* a reminder fired, its delivery failed and its record is completed
C14_Witness ==
    \E i \in 1..Len(sent_reminders) :
        /\ ~sent_reminders[i].delivered
        /\ ReminderCompleted(sent_reminders[i].id)
        /\ Attempts(sent_reminders[i].id) = 1
        /\ \A job \in jobs : job.id # sent_reminders[i].id

\* the duration named by the integer and the unit token that time_str
\* begins with, if it begins with such a pair
LeadingPair(time_str) ==
    LET s == Strip(Lower(time_str))
        e == DigitRunEnd(s, 1)
        u == SkipWs(s, e + 1)
    IN IF s # <<>> /\ IsDigit(s[1]) /\ u <= Len(s)
          /\ \E k \in 1..3 : s[u] \in UnitStarts[k]
       THEN [ok |-> TRUE,
             value |-> DigitsValue(SubSeq(s, 1, e))
                       * UnitMinutes[CHOOSE k \in 1..3 : s[u] \in UnitStarts[k]]]
       ELSE [ok |-> FALSE, value |-> 0]

\* C15: the result of parse_time_string is the call time plus the duration
\* of the leading integer and its unit, also when another number-unit pair
\* follows; a string without such a pair is answered with the format error.
C15_LeadingPairDecides ==
    (/\ last.handler = "execute_function"
     /\ last.calls[1].function_name = FnSetReminder)
    => LET pair == LeadingPair(last.calls[1].parameters[KeyTime])
           row == reminders[Len(reminders)]
       IN IF pair.ok
          THEN /\ last.replies # <<MsgBadTime>>
               /\ row.reminder_time = row.created_at + pair.value
          ELSE last.replies = <<MsgBadTime>>

\* C16: every reminder that set_reminder persists is for a time strictly
\* later than the time of the call, a numeric value of 0 included.
C16_ReminderInFuture ==
    \A i \in 1..Len(reminders) : reminders[i].reminder_time > reminders[i].created_at

C18_RecordAndJobTogether ==
    /\ \A i \in 1..Len(reminders) :
          ~reminders[i].completed
          => Cardinality({job \in jobs : job.id = reminders[i].id}) = 1
    /\ \A job \in jobs :
          \E i \in 1..Len(reminders) :
              reminders[i].id = job.id /\ ~reminders[i].completed

C20_MemoryAlternates ==
    \A u \in DOMAIN conversation_memory :
        /\ Len(conversation_memory[u]) % 2 = 0
        /\ \A i \in 1..Len(conversation_memory[u]) :
              conversation_memory[u][i].role
                 = IF i % 2 = 1 THEN "user" ELSE "assistant"

\* a run that built its request while the memory was empty has completed
\* after three other exchanges and cut the memory to its last 6 entries
C20_Witness ==
    /\ last.handler = "handle_message"
    /\ last.http.kind = "ok"
    /\ last.calls = <<>>
    /\ Len(last.request) = 2
    /\ Len(MemOf(OWNER_ID)) = 6
    /\ Len(ai_conversations) >= 4
====
